---- MODULE Spec2Model ----
(***************************************************************************)
(* Avito inbound-message pipeline of ai-sales-assistant:                   *)
(*   - webhook route and AvitoWebhookHandler (bounded queue, worker pool,  *)
(*     reply sender with retry)                                            *)
(*   - AvitoConversationManager (conversation FSM, extraction pass)        *)
(*   - AvitoLeadService (CRM lead create-or-update)                        *)
(* Each component has its own specification over the shared variables.     *)
(***************************************************************************)
EXTENDS Integers, Sequences, FiniteSets, TLC

(* ------------------------------ bounds --------------------------------- *)
MaxQueueSize == 2
NumWorkers == 2
MaxRequests == 2
MaxTurns == 3
MaxConcTurns == 1
NumRequesters == 2
MaxTokenRequests == 3
MaxPasses == 3
RateLimit == 2
MaxLeads == 2

(* --------------------------- program constants ------------------------- *)
MaxSendAttempts == 3
avito_auto_reply_enabled == TRUE

Chats == {"c1", "c2"}
None == "None"

VARIABLES
    message_queue,   \* AvitoWebhookHandler.message_queue of webhook_handler
    workers,         \* AvitoWebhookHandler._workers: ids of the tasks in the list
    task,            \* per worker task: position in _worker_loop and locals
    stop_event,      \* AvitoWebhookHandler._stop_event
    stopping,        \* stop_processing: 0 = not running, k = awaiting task k
    addTick,         \* flips at every add_to_queue call
    lastAdd,         \* what the last add_to_queue call logged
    errorLogged,     \* a worker has logged an exception of _handle_message
    requests,        \* HTTP requests received by receive_avito_message
    sendPc,          \* a _send_with_retry call: "idle", "loop", "returned"
    sendLog,         \* outcomes of its send_message calls, in order
    sendChat,        \* chat_id the reply is for
    store,           \* Redis avito:conversation:{chat_id}: the saved contexts
    turn,            \* handle_message calls in flight: position and locals
    lastTurn,        \* the handle_message call that ended last, and how
    service_token,   \* AvitoLeadService.service_token (settings)
    crm,             \* amoCRM: the contact and the leads of each chat
    leadCall,        \* create_lead_from_conversation calls in flight
    lead_cache,      \* Redis avito:lead_created:{chat_id}: the cached lead
    sinceCreated,    \* time since a chat's last lead creation, against
                     \* avito_lead_cache_ttl: "never", "within_ttl", "elapsed"
    lastCall,        \* the last call of a function of the qualifier or the
                     \* state machine: its arguments and what it returned
    avito_token,     \* Redis avito:access_token: the token and its TTL
    auth_lock,       \* AvitoAuthManager._lock: the _request call holding it
    call,            \* AvitoAPIClient._request calls: position and locals
    token_requests,  \* POSTs to the token URL made so far
    cache_disturbed, \* whether a token request failed, a short-lived token
                     \* was issued, or the cached token aged or was deleted
    is_running,      \* AvitoSyncManager.is_running
    sync_task,       \* AvitoSyncManager.sync_task and where _sync_loop is
    sync_lock,       \* AvitoSyncManager._lock: the call holding it
    syncCall,        \* start_sync / stop_sync calls in flight
    sync_passes,     \* sync_all_items calls started so far
    rate_key,        \* Redis rate_limit:{client}: the counter and its expiry
    rateReq,         \* RateLimitMiddleware.dispatch calls in flight
    rateLast         \* the dispatch call that ended last, and how

poolVars == <<message_queue, workers, task, stop_event, stopping, addTick,
              lastAdd, errorLogged>>
routeVars == <<requests>>
sendVars == <<sendPc, sendLog, sendChat>>

convVars == <<store, turn, lastTurn>>
leadVars == <<service_token, crm, leadCall, lead_cache, sinceCreated>>

pureVars == <<lastCall>>

appVars == <<poolVars, routeVars, sendVars, convVars, leadVars, pureVars>>

authVars == <<avito_token, auth_lock, call, token_requests, cache_disturbed>>
syncVars == <<is_running, sync_task, sync_lock, syncCall, sync_passes>>
rateVars == <<rate_key, rateReq, rateLast>>

opsVars == <<authVars, syncVars, rateVars>>

vars == <<appVars, opsVars>>

(* ------------------------------ events --------------------------------- *)
(* A webhook body: event_type, where chat_id sits ("payload": under        *)
(* payload as in the documented body, "message": inside the message        *)
(* object, "none": absent), message type and whether text is non-empty.    *)
Ev(et, at, mt, txt) ==
    [event_type |-> et, chat_at |-> at, chat_id |-> "c1", type |-> mt, has_text |-> txt]

NewTextBody == Ev("message.new", "payload", "text", TRUE)
NewTextMsg == Ev("message.new", "message", "text", TRUE)
NewImageMsg == Ev("message.new", "message", "image", FALSE)
NewVoiceMsg == Ev("message.new", "message", "voice", FALSE)
ReadEvent == Ev("message.read", "payload", "text", FALSE)
EditedImageEvent == Ev("message.edited", "message", "image", FALSE)
UntypedTextEvent == Ev("", "message", "text", TRUE)

Events == {NewTextBody, NewTextMsg, NewImageMsg, NewVoiceMsg, ReadEvent}

\* Events for the dispatch by event_type: a new message, message.read, a
\* type the handler does not know, and a body with no event_type.
DispatchEvents == {NewImageMsg, ReadEvent, EditedImageEvent, UntypedTextEvent}

WebhookBodies == {NewTextBody, ReadEvent}

Signatures == {"absent", "valid", "invalid"}

WorkerIds == 1..NumWorkers

\* The payload local of a worker that holds no event.
NoEvent == Ev("", "none", "", FALSE)

IdleTask == [pc |-> "nil", payload |-> NoEvent, cancel |-> FALSE, attempt |-> 0]

(* ------------------------- AvitoWebhookHandler ------------------------- *)

\* validate_signature: a stub that accepts whatever signature is given.
validate_signature(payload, signature) == TRUE

\* A full queue that makes room by discarding its oldest event.
add_to_queue_drop_oldest(q, ev) ==
    IF Len(q) < MaxQueueSize THEN Append(q, ev) ELSE Append(Tail(q), ev)

\* put_nowait on asyncio.Queue(maxsize): QueueFull is caught and logged.
add_to_queue(q, ev) ==
    IF Len(q) < MaxQueueSize THEN Append(q, ev) ELSE q

\* AvitoMessageHandlers.handle_text_message: after loading the CRM history
\* it calls avito_lead_service.contact_exists, which AvitoLeadService does
\* not define, so the call raises AttributeError before any answer is built.
handle_text_message(chat_id) == "raise"

\* AvitoMessageHandlers.handle_image_message: a canned acknowledgement.
handle_image_message(chat_id) == "reply"

\* A dispatcher that hands every event to _handle_new_message.
handle_message_any_type(ev) ==
    IF ev.chat_at # "message" THEN "skip"
    ELSE LET response ==
               IF ev.type = "text" /\ ev.has_text THEN handle_text_message(ev.chat_id)
               ELSE IF ev.type = "image" THEN handle_image_message(ev.chat_id)
               ELSE "noreply"
         IN IF response = "reply" /\ ~avito_auto_reply_enabled
            THEN "noreply" ELSE response

\* _handle_message / _handle_new_message up to the point of sending:
\* "ignored" (not message.new), "skip" (no chat_id in the message object),
\* "raise", "reply" (a response to send), "noreply".
handle_message(ev) ==
    IF ev.event_type = "message.new"
    THEN IF ev.chat_at # "message" THEN "skip"
         ELSE LET response ==
                    IF ev.type = "text" /\ ev.has_text THEN handle_text_message(ev.chat_id)
                    ELSE IF ev.type = "image" THEN handle_image_message(ev.chat_id)
                    ELSE "noreply"
              IN IF response = "reply" /\ ~avito_auto_reply_enabled
                 THEN "noreply" ELSE response
    ELSE "ignored"

\* while not self._stop_event.is_set(): the position after one iteration.
loop_again(stopSet) == IF stopSet THEN "exit" ELSE "get"

\* A worker loop whose exception ends the task.
worker_catch_propagates(stopSet) == "exit"

\* except Exception in _worker_loop: log, task_done, next iteration.
worker_catch(stopSet) == loop_again(stopSet)

\* Outcomes of client.send_message: success, AvitoRateLimitError with or
\* without retry_after, AvitoAPIError, any other Exception.
SendOutcomes == {"ok", "rate_limit", "rate_limit_after", "api_error", "other_error"}

\* A loop that goes on after a successful send.
send_next_pc_skip_return(calls, outcome) ==
    IF calls + 1 >= MaxSendAttempts THEN "returned" ELSE "loop"

\* _send_with_retry: where the function is after a send_message call ending
\* as outcome, made when calls calls were already made: "returned" (the
\* send succeeded, or range(3) is exhausted and the failure is logged),
\* "loop" (next attempt after the sleep). Every Exception is caught.

\* redis.get(cache_key) of a key that is not set.
NoEntry == [lead_id |-> 0]

\* redis.get("avito:access_token") of a key that is not set (TTL -2).
NoToken == [token |-> 0, ttl |-> "absent"]

\* A _request call that has not started.
IdleRequest ==
    [pc |-> "idle", attempt |-> 0, token |-> 0, invalidations |-> 0,
     unauthorized |-> 0, outcome |-> "none"]

\* The Redis key rate:{client_ip} when it is not set.
NoKey == [count |-> 0, expiry |-> FALSE]

\* A dispatch call that has not started.
IdleDispatch == [pc |-> "idle", client |-> None, path |-> None]

\* sync_task = None.
NoTask == [pc |-> "none", cancel |-> FALSE]

send_next_pc(calls, outcome) ==
    IF outcome = "ok" THEN "returned"
    ELSE IF calls + 1 >= MaxSendAttempts THEN "returned"
    ELSE "loop"

Init ==
    /\ message_queue = <<>>
    /\ workers = {}
    /\ task = [w \in WorkerIds |-> IdleTask]
    /\ stop_event = FALSE
    /\ stopping = 0
    /\ addTick = FALSE
    /\ lastAdd = "none"
    /\ errorLogged = FALSE
    /\ requests = <<>>
    /\ sendPc = "idle"
    /\ sendLog = <<>>
    /\ sendChat = None
    /\ store = [c \in Chats |-> [state |-> "absent"]]
    /\ turn = [t \in 1..2 |->
                 [pc |-> "idle", chat |-> None, ctx |-> [state |-> "absent"], old_state |-> None]]
    /\ lastTurn = [chat |-> None, path |-> <<>>, result |-> "none", reply |-> "none",
                   lead_scheduled |-> FALSE, called |-> {}, failed |-> {},
                   phone_found |-> FALSE]
    /\ service_token \in {"", "token"}
    /\ crm = [c \in Chats |-> [contact |-> FALSE, leads |-> <<>>]]
    /\ leadCall = [k \in 1..2 |-> [pc |-> "idle", chat |-> None, lead |-> 0, status_id |-> 0]]
    /\ lead_cache = [c \in Chats |-> NoEntry]
    /\ sinceCreated = [c \in Chats |-> "never"]
    /\ lastCall = [fn |-> "none"]
    /\ avito_token = NoToken
    /\ auth_lock = 0
    /\ call = [r \in 1..NumRequesters |-> IdleRequest]
    /\ token_requests = 0
    /\ cache_disturbed = FALSE
    /\ is_running = FALSE
    /\ sync_task = NoTask
    /\ sync_lock = 0
    /\ syncCall = [k \in 1..2 |-> "idle"]
    /\ sync_passes = 0
    /\ rate_key = [ip \in {"ip1", "ip2"} |-> NoKey]
    /\ rateReq = [q \in 1..2 |-> IdleDispatch]
    /\ rateLast = [client |-> None, path |-> None, status |-> 0]

\* add_to_queue called with an event.
AddToQueue(ev) ==
    /\ addTick' = ~addTick
    /\ message_queue' = add_to_queue(message_queue, ev)
    /\ lastAdd' = IF Len(message_queue) < MaxQueueSize THEN "queued" ELSE "dropped"
    /\ UNCHANGED <<workers, task, stop_event, stopping, errorLogged>>
    /\ UNCHANGED <<routeVars, sendVars, convVars, leadVars, pureVars, opsVars>>

\* start_processing.
StartProcessing ==
    /\ stopping = 0
    /\ IF workers # {}
       THEN UNCHANGED <<workers, task, stop_event>>
       ELSE /\ stop_event' = FALSE
            /\ task' = [w \in WorkerIds |-> [IdleTask EXCEPT !.pc = "get"]]
            /\ workers' = WorkerIds
    /\ UNCHANGED <<message_queue, stopping, addTick, lastAdd, errorLogged>>
    /\ UNCHANGED <<routeVars, sendVars, convVars, leadVars, pureVars, opsVars>>

\* stop_processing up to its first await: set the event, cancel task 1.
StopBegin ==
    /\ stopping = 0
    /\ workers # {}
    /\ stop_event' = TRUE
    /\ stopping' = 1
    /\ task' = [task EXCEPT ![1].cancel = TRUE]
    /\ UNCHANGED <<message_queue, workers, addTick, lastAdd, errorLogged>>
    /\ UNCHANGED <<routeVars, sendVars, convVars, leadVars, pureVars, opsVars>>

\* stop_processing resumes when the awaited task has finished.
StopAwait ==
    /\ stopping > 0
    /\ task[stopping].pc = "exit"
    /\ IF stopping < NumWorkers
       THEN /\ stopping' = stopping + 1
            /\ task' = [task EXCEPT ![stopping + 1].cancel = TRUE]
            /\ UNCHANGED workers
       ELSE /\ stopping' = 0
            /\ workers' = {}
            /\ UNCHANGED task
    /\ UNCHANGED <<message_queue, stop_event, addTick, lastAdd, errorLogged>>
    /\ UNCHANGED <<routeVars, sendVars, convVars, leadVars, pureVars, opsVars>>

\* _worker_loop: payload = await self.message_queue.get()
WorkerGet(w) ==
    /\ task[w].pc = "get"
    /\ ~task[w].cancel
    /\ message_queue # <<>>
    /\ task' = [task EXCEPT ![w].pc = "handle", ![w].payload = Head(message_queue)]
    /\ message_queue' = Tail(message_queue)
    /\ UNCHANGED <<workers, stop_event, stopping, addTick, lastAdd, errorLogged>>
    /\ UNCHANGED <<routeVars, sendVars, convVars, leadVars, pureVars, opsVars>>

\* _worker_loop: await self._handle_message(payload), up to the reply sender.
WorkerHandle(w) ==
    /\ task[w].pc = "handle"
    /\ ~task[w].cancel
    /\ LET r == handle_message(task[w].payload) IN
       /\ task' = [task EXCEPT
             ![w].pc = IF r = "reply" THEN "send"
                       ELSE IF r = "raise" THEN worker_catch(stop_event)
                       ELSE loop_again(stop_event),
             ![w].payload = IF r = "reply" THEN @ ELSE NoEvent,
             ![w].attempt = 0]
       /\ errorLogged' = (errorLogged \/ r = "raise")
    /\ UNCHANGED <<message_queue, workers, stop_event, stopping, addTick, lastAdd>>
    /\ UNCHANGED <<routeVars, sendVars, convVars, leadVars, pureVars, opsVars>>

\* _send_with_retry in a worker: one pass of the loop, send_message ending as outcome.
WorkerSend(w, outcome) ==
    /\ task[w].pc = "send"
    /\ ~task[w].cancel
    /\ IF send_next_pc(task[w].attempt, outcome) = "loop"
       THEN task' = [task EXCEPT ![w].attempt = @ + 1]
       ELSE task' = [task EXCEPT ![w].pc = loop_again(stop_event),
                                 ![w].payload = NoEvent,
                                 ![w].attempt = 0]
    /\ UNCHANGED <<message_queue, workers, stop_event, stopping, addTick,
                   lastAdd, errorLogged>>
    /\ UNCHANGED <<routeVars, sendVars, convVars, leadVars, pureVars, opsVars>>

\* task.cancel(): CancelledError is delivered at the task's await point.
WorkerCancelled(w) ==
    /\ task[w].cancel
    /\ task[w].pc \in {"get", "handle", "send"}
    /\ task' = [task EXCEPT ![w].pc = "exit", ![w].payload = NoEvent, ![w].attempt = 0]
    /\ UNCHANGED <<message_queue, workers, stop_event, stopping, addTick,
                   lastAdd, errorLogged>>
    /\ UNCHANGED <<routeVars, sendVars, convVars, leadVars, pureVars, opsVars>>

Next ==
    \/ \E ev \in Events : AddToQueue(ev)
    \/ StartProcessing
    \/ StopBegin
    \/ StopAwait
    \/ \E w \in WorkerIds : WorkerGet(w)
    \/ \E w \in WorkerIds : WorkerHandle(w)
    \/ \E w \in WorkerIds, o \in SendOutcomes : WorkerSend(w, o)
    \/ \E w \in WorkerIds : WorkerCancelled(w)

Spec == Init /\ [][Next]_vars

\* The pool fed with events of every kind of event_type.
DispatchNext ==
    \/ \E ev \in DispatchEvents : AddToQueue(ev)
    \/ StartProcessing
    \/ StopBegin
    \/ StopAwait
    \/ \E w \in WorkerIds : WorkerGet(w)
    \/ \E w \in WorkerIds : WorkerHandle(w)
    \/ \E w \in WorkerIds, o \in SendOutcomes : WorkerSend(w, o)
    \/ \E w \in WorkerIds : WorkerCancelled(w)

DispatchSpec == Init /\ [][DispatchNext]_vars

(* ------------------------------ the route ------------------------------ *)

\* receive_avito_message: validate, then spawn _process_webhook_async.
ReceiveAvitoMessage(ev, sig) ==
    /\ Len(requests) < MaxRequests
    /\ requests' = Append(requests,
          IF validate_signature(ev, sig)
          THEN [ev |-> ev, sig |-> sig, status |-> 200, bg |-> "pending"]
          ELSE [ev |-> ev, sig |-> sig, status |-> 403, bg |-> "none"])
    /\ UNCHANGED <<poolVars, sendVars, convVars, leadVars, pureVars, opsVars>>

\* _handler.process_message(data): AvitoWebhookHandler defines no such
\* method, so the call raises AttributeError; nothing is put on a queue.
process_message(ev) == "raise"

\* _process_webhook_async: the background task; an exception is caught and
\* logged ("failed"), otherwise the payload would be "queued".
ProcessWebhookAsync(i) ==
    /\ i \in 1..Len(requests)
    /\ requests[i].bg = "pending"
    /\ requests' = [requests EXCEPT
          ![i].bg = IF process_message(requests[i].ev) = "raise" THEN "failed" ELSE "queued"]
    /\ UNCHANGED <<poolVars, sendVars, convVars, leadVars, pureVars, opsVars>>

RouteNext ==
    \/ \E ev \in WebhookBodies, sig \in Signatures : ReceiveAvitoMessage(ev, sig)
    \/ \E i \in 1..MaxRequests : ProcessWebhookAsync(i)

RouteSpec == Init /\ [][RouteNext]_vars

(* --------------------------- _send_with_retry -------------------------- *)

\* _send_with_retry(chat_id, text) is called.
SendWithRetry(chat) ==
    /\ sendPc \in {"idle", "returned"}
    /\ sendPc' = "loop"
    /\ sendLog' = <<>>
    /\ sendChat' = chat
    /\ UNCHANGED <<poolVars, routeVars, convVars, leadVars, pureVars, opsVars>>

\* One pass of for attempt in range(3): send_message ends as outcome.
SendMessage(outcome) ==
    /\ sendPc = "loop"
    /\ sendLog' = Append(sendLog, outcome)
    /\ sendPc' = send_next_pc(Len(sendLog), outcome)
    /\ UNCHANGED sendChat
    /\ UNCHANGED <<poolVars, routeVars, convVars, leadVars, pureVars, opsVars>>

SendNext ==
    \/ \E c \in Chats : SendWithRetry(c)
    \/ \E o \in SendOutcomes : SendMessage(o)

SendSpec == Init /\ [][SendNext]_vars /\ WF_vars(\E o \in SendOutcomes : SendMessage(o))

(* ---------------------- AvitoConversationManager ----------------------- *)

States == <<"start", "greeting", "name_collected", "need_identified",
            "phone_collected", "qualified">>

Turners == 1..2

NoContext == [state |-> "absent"]

\* get_context for a chat_id with nothing stored.
NewContext ==
    [state |-> "start", user_name |-> None, phone |-> None, email |-> None,
     pain_point |-> None, product_interest |-> None, messages |-> <<>>]

IdleTurn == [pc |-> "idle", chat |-> None, ctx |-> NoContext, old_state |-> None]

TaskTypes == {"name", "phone", "need"}

NoTurn ==
    [chat |-> None, path |-> <<>>, result |-> "none", reply |-> "none",
     lead_scheduled |-> FALSE, called |-> {}, failed |-> {}, phone_found |-> FALSE]

name_extraction_threshold == 70
phone_extraction_threshold == 80
need_extraction_threshold == 60

\* An extractor call that raised (asyncio.gather(return_exceptions=True)
\* hands the exception back as the result).
Raised == [kind |-> "exception"]

Result(v, c) == [kind |-> "result", value |-> v, confidence |-> c]

\* NameExtractor.extract: name and confidence as the LLM gave them.
NameResults == {Raised, Result(None, 0), Result("Ivan", 69), Result("Ivan", 70)}

\* PhoneExtractor.extract: regex match with confidence 0.9, or nothing.
PhoneResults == {Raised, Result(None, 0), Result("+79991234567", 90)}

Need(p, i) == [pain_point |-> p, product_interest |-> i]

\* NeedExtractor.extract: value is the JSON of {pain_point, product_interest},
\* present exactly when a pain_point was found.
NeedResults ==
    {Raised, Result(Need(None, None), 0), Result(Need("crm", None), 59),
     Result(Need("crm", None), 60), Result(Need("crm", "AI Manager"), 60)}

\* A pass that gives every extractor a task.
Applicable_always(ctx, type) == TRUE

\* A pass that runs the need extractor again after pain_point is set.
Applicable_need_again(ctx, type) ==
    CASE type = "name" -> ctx.user_name = None
      [] type = "phone" -> ctx.phone = None
      [] type = "need" -> TRUE

\* The tasks of one extraction pass: a field already set gets no task.
Applicable(ctx, type) ==
    CASE type = "name" -> ctx.user_name = None
      [] type = "phone" -> ctx.phone = None
      [] type = "need" -> ctx.pain_point = None

\* "result.value" as a condition.
Truthy(type, v) == IF type = "need" THEN v.pain_point # None ELSE v # None

\* An extractor call that failed: it raised, or (NameExtractor and
\* NeedExtractor) it caught its own error, an LLM exception or bad JSON of
\* the model, and returned value None with confidence 0.0.
Failed(type, r) ==
    \/ r.kind = "exception"
    \/ type # "phone" /\ r.kind = "result" /\ ~Truthy(type, r.value) /\ r.confidence = 0

\* One iteration of "for task_type, result in zip(task_types, results)".
\* acc: the context, the local data (Unbound until the need branch binds
\* it) and whether the loop has raised. The two assignments from data sit
\* in the loop body after the if/elif chain, so they run in every iteration
\* whose result is no exception and raise UnboundLocalError while data is
\* unbound.
Unbound == [pain_point |-> "Unbound", product_interest |-> "Unbound"]

\* A loop body that takes any value the name extractor returns, whatever
\* its confidence.
extract_iteration_any_confidence(acc, type, r) ==
    IF acc.raised \/ r.kind = "exception" THEN acc
    ELSE LET ctx1 ==
               IF type = "name" /\ Truthy(type, r.value)
               THEN [acc.ctx EXCEPT !.user_name = r.value]
               ELSE IF type = "phone" /\ Truthy(type, r.value) /\ r.confidence >= phone_extraction_threshold
               THEN [acc.ctx EXCEPT !.phone = r.value]
               ELSE acc.ctx
             data1 ==
               IF type = "need" /\ Truthy(type, r.value) /\ r.confidence >= need_extraction_threshold
               THEN r.value ELSE acc.data
         IN IF data1 = Unbound
            THEN [ctx |-> ctx1, data |-> data1, raised |-> TRUE]
            ELSE [ctx |-> [ctx1 EXCEPT !.pain_point = data1.pain_point,
                                       !.product_interest = data1.product_interest],
                  data |-> data1, raised |-> FALSE]

extract_iteration(acc, type, r) ==
    IF acc.raised \/ r.kind = "exception" THEN acc
    ELSE LET ctx1 ==
               IF type = "name" /\ Truthy(type, r.value) /\ r.confidence >= name_extraction_threshold
               THEN [acc.ctx EXCEPT !.user_name = r.value]
               ELSE IF type = "phone" /\ Truthy(type, r.value) /\ r.confidence >= phone_extraction_threshold
               THEN [acc.ctx EXCEPT !.phone = r.value]
               ELSE acc.ctx
             data1 ==
               IF type = "need" /\ Truthy(type, r.value) /\ r.confidence >= need_extraction_threshold
               THEN r.value ELSE acc.data
         IN IF data1 = Unbound
            THEN [ctx |-> ctx1, data |-> data1, raised |-> TRUE]
            ELSE [ctx |-> [ctx1 EXCEPT !.pain_point = data1.pain_point,
                                       !.product_interest = data1.product_interest],
                  data |-> data1, raised |-> FALSE]

\* _try_extract_data: the applicable tasks in the order name, phone, need.
try_extract_data(ctx, rn, rp, rd) ==
    LET a0 == [ctx |-> ctx, data |-> Unbound, raised |-> FALSE]
        a1 == IF Applicable(ctx, "name") THEN extract_iteration(a0, "name", rn) ELSE a0
        a2 == IF Applicable(ctx, "phone") THEN extract_iteration(a1, "phone", rp) ELSE a1
        a3 == IF Applicable(ctx, "need") THEN extract_iteration(a2, "need", rd) ELSE a2
    IN a3

\* A state machine that takes a phone as soon as the name is known.
update_state_phone_first(ctx) ==
    IF ctx.state = "start" THEN "greeting"
    ELSE IF ctx.state = "greeting"
    THEN (IF ctx.pain_point # None THEN "need_identified"
          ELSE IF ctx.user_name # None THEN "name_collected"
          ELSE ctx.state)
    ELSE IF ctx.state = "name_collected"
    THEN (IF ctx.phone # None THEN "phone_collected"
          ELSE IF ctx.pain_point # None THEN "need_identified"
          ELSE ctx.state)
    ELSE IF ctx.state = "need_identified"
    THEN (IF ctx.phone # None THEN "phone_collected" ELSE ctx.state)
    ELSE ctx.state

\* A state machine that leaves START for the state its fields allow.
update_state_skips(ctx) ==
    IF ctx.state = "start"
    THEN (IF ctx.pain_point # None THEN "need_identified" ELSE "greeting")
    ELSE IF ctx.state = "greeting"
    THEN (IF ctx.pain_point # None THEN "need_identified"
          ELSE IF ctx.user_name # None THEN "name_collected"
          ELSE ctx.state)
    ELSE IF ctx.state = "name_collected"
    THEN (IF ctx.pain_point # None THEN "need_identified" ELSE ctx.state)
    ELSE IF ctx.state = "need_identified"
    THEN (IF ctx.phone # None THEN "phone_collected" ELSE ctx.state)
    ELSE ctx.state

\* A state machine that falls back to GREETING while the phone is missing.
update_state_resets(ctx) ==
    IF ctx.state = "start" THEN "greeting"
    ELSE IF ctx.state = "greeting"
    THEN (IF ctx.pain_point # None THEN "need_identified"
          ELSE IF ctx.user_name # None THEN "name_collected"
          ELSE ctx.state)
    ELSE IF ctx.state = "name_collected"
    THEN (IF ctx.pain_point # None THEN "need_identified" ELSE ctx.state)
    ELSE IF ctx.state = "need_identified"
    THEN (IF ctx.phone # None THEN "phone_collected" ELSE "greeting")
    ELSE ctx.state

\* _update_state: the new value of context.state.
update_state(ctx) ==
    IF ctx.state = "start" THEN "greeting"
    ELSE IF ctx.state = "greeting"
    THEN (IF ctx.pain_point # None THEN "need_identified"
          ELSE IF ctx.user_name # None THEN "name_collected"
          ELSE ctx.state)
    ELSE IF ctx.state = "name_collected"
    THEN (IF ctx.pain_point # None THEN "need_identified" ELSE ctx.state)
    ELSE IF ctx.state = "need_identified"
    THEN (IF ctx.phone # None THEN "phone_collected" ELSE ctx.state)
    ELSE ctx.state

\* A reply that is driven by the state's prompt in every state.
generate_response_by_prompt(state, llm) ==
    IF llm THEN "prompt" ELSE "fallback"

\* _generate_response: the kind of reply for a state; llm says whether the
\* text-generation call succeeded.
generate_response(state, llm) ==
    IF state = "qualified" THEN (IF llm THEN "rag" ELSE "canned")
    ELSE IF llm THEN "prompt" ELSE "fallback"

\* add_message: one entry of the history, its role and the call that
\* appended it (the call stands for the entry's text and timestamp).
Msg(role, t) == [role |-> role, by |-> t]

\* The messages kept in all stored contexts.
StoredMessages ==
    (IF store["c1"] = NoContext THEN 0 ELSE Len(store["c1"].messages))
        + (IF store["c2"] = NoContext THEN 0 ELSE Len(store["c2"].messages))

\* handle_message, first part: get_context, add_message(USER), old_state.
TurnLoad(t, c) ==
    /\ turn[t].pc = "idle"
    /\ StoredMessages < 2 * MaxTurns
    /\ LET ctx0 == IF store[c] = NoContext THEN NewContext ELSE store[c] IN
       /\ turn' = [turn EXCEPT ![t] =
             [pc |-> "loaded", chat |-> c,
              ctx |-> [ctx0 EXCEPT !.messages = Append(@, Msg("user", t))],
              old_state |-> ctx0.state]]
    /\ UNCHANGED <<store, lastTurn>>
    /\ UNCHANGED <<poolVars, routeVars, sendVars, leadVars, pureVars, opsVars>>

\* handle_message, the rest: extraction pass, _update_state, the reply,
\* add_message(BOT), save_context. An exception of the extraction pass ends
\* the call before anything is saved.
TurnFinish(t, rn, rp, rd, llm) ==
    /\ turn[t].pc = "loaded"
    /\ LET c == turn[t].chat
           old == turn[t].old_state
           ex == try_extract_data(turn[t].ctx, rn, rp, rd)
           st1 == update_state(ex.ctx)
           entered == old # "phone_collected" /\ st1 = "phone_collected"
           st2 == IF entered THEN "qualified" ELSE st1
           reply == IF entered THEN "confirmation" ELSE generate_response(st2, llm)
           path == <<old>> \o (IF st1 # old THEN <<st1>> ELSE <<>>)
                          \o (IF st2 # st1 THEN <<st2>> ELSE <<>>)
           saved == [ex.ctx EXCEPT !.state = st2, !.messages = Append(@, Msg("bot", t))]
           res == [name |-> rn, phone |-> rp, need |-> rd]
           called == {ty \in TaskTypes : Applicable(turn[t].ctx, ty)}
           failed == {ty \in called : Failed(ty, res[ty])}
           found == "phone" \in called /\ rp.kind = "result" /\ Truthy("phone", rp.value)
                       /\ rp.confidence >= phone_extraction_threshold
       IN IF ex.raised
          THEN /\ lastTurn' = [chat |-> c, path |-> <<old>>, result |-> "raised",
                               reply |-> "none", lead_scheduled |-> FALSE,
                               called |-> called, failed |-> failed,
                               phone_found |-> found]
               /\ UNCHANGED store
          ELSE /\ lastTurn' = [chat |-> c, path |-> path, result |-> "saved",
                               reply |-> reply, lead_scheduled |-> entered,
                               called |-> called, failed |-> failed,
                               phone_found |-> found]
               /\ store' = [store EXCEPT ![c] = saved]
    /\ turn' = [turn EXCEPT ![t] = IdleTurn]
    /\ UNCHANGED <<poolVars, routeVars, sendVars, leadVars, pureVars, opsVars>>

\* The stored context reaches its TTL (avito_conversation_ttl).
ExpireContext(c) ==
    /\ store[c] # NoContext
    /\ store' = [store EXCEPT ![c] = NoContext]
    /\ UNCHANGED <<turn, lastTurn>>
    /\ UNCHANGED <<poolVars, routeVars, sendVars, leadVars, pureVars, opsVars>>

\* Turns processed one after another: a call starts when none is in flight.
ConvNext ==
    \/ \E c \in Chats :
          (\A u \in Turners : turn[u].pc = "idle") /\ TurnLoad(1, c)
    \/ \E t \in Turners, rn \in NameResults, rp \in PhoneResults,
          rd \in NeedResults, llm \in BOOLEAN : TurnFinish(t, rn, rp, rd, llm)
    \/ \E c \in Chats : ExpireContext(c)

ConvSpec == Init /\ [][ConvNext]_vars

\* Turns of several callers in flight at once: handle_message suspends at
\* every await between get_context and save_context, and nothing orders two
\* calls for one chat_id.
ConcNext ==
    \/ \E t \in Turners, c \in Chats :
          StoredMessages < 2 * MaxConcTurns /\ TurnLoad(t, c)
    \/ \E t \in Turners, rn \in NameResults, rp \in PhoneResults,
          rd \in NeedResults, llm \in BOOLEAN : TurnFinish(t, rn, rp, rd, llm)
    \/ \E c \in Chats : ExpireContext(c)

ConcSpec == Init /\ [][ConcNext]_vars

(* --------------------------- AvitoLeadService -------------------------- *)

STAGE_TO_STATUS ==
    [first_contact |-> 80984178, negotiation |-> 80984182,
     decision |-> 80984186, contract |-> 80984190]

STAGE_ORDER == [first_contact |-> 1, negotiation |-> 2, decision |-> 3, contract |-> 4]

Stages == DOMAIN STAGE_TO_STATUS

\* A status of the CRM that STAGE_TO_STATUS does not list.
OtherStatus == 0

\* The status amoCRM gives a lead created without status_id and pipeline_id.
CreatedStatuses == {STAGE_TO_STATUS["first_contact"], OtherStatus}

Phones == {None, "+79991234567"}

\* Background tasks and workers that may be inside the call at a time.
LeadCallers == 1..2

IdleCall == [pc |-> "idle", chat |-> None, lead |-> 0, status_id |-> 0]

\* A comparison that lets an equal stage through.
should_update_stage_or_equal(current_status_id, new_status_id) ==
    /\ \E st \in Stages : STAGE_TO_STATUS[st] = current_status_id
    /\ \E st \in Stages : STAGE_TO_STATUS[st] = new_status_id
    /\ LET cur == CHOOSE st \in Stages : STAGE_TO_STATUS[st] = current_status_id
           new == CHOOSE st \in Stages : STAGE_TO_STATUS[st] = new_status_id
       IN STAGE_ORDER[new] >= STAGE_ORDER[cur]

\* should_update_stage: only forward, and only between known statuses.
should_update_stage(current_status_id, new_status_id) ==
    /\ \E st \in Stages : STAGE_TO_STATUS[st] = current_status_id
    /\ \E st \in Stages : STAGE_TO_STATUS[st] = new_status_id
    /\ LET cur == CHOOSE st \in Stages : STAGE_TO_STATUS[st] = current_status_id
           new == CHOOSE st \in Stages : STAGE_TO_STATUS[st] = new_status_id
       IN STAGE_ORDER[new] > STAGE_ORDER[cur]

\* find_contact_by_phone: whether a contact id came back. None comes back
\* when no contact has the phone and on any exception of the request.
find_contact_by_phone(book, phone) ==
    {FALSE} \cup (IF phone # None /\ book.contact THEN {TRUE} ELSE {})

\* find_leads_by_contact: positions of the contact's leads, or the empty
\* list, which also comes back on any exception of the request.
find_leads_by_contact(book) ==
    {<<>>} \cup {SelectSeq([i \in 1..Len(book.leads) |-> i],
                           LAMBDA i : book.leads[i].linked)}

TotalLeads == Len(crm["c1"].leads) + Len(crm["c2"].leads)

\* POST /api/v1/amocrm/leads -> amocrm_service.create_lead_from_conversation:
\* a contact when there is a phone (its failure is tolerated), then the lead.
PostLead(c, phone, contact_ok, lead_ok, st) ==
    LET made == phone # None /\ contact_ok
        book == [crm[c] EXCEPT !.contact = @ \/ made]
    IN /\ crm' = [crm EXCEPT ![c] =
              IF lead_ok
              THEN [book EXCEPT !.leads = Append(@, [status_id |-> st, linked |-> made,
                                                     phone |-> phone # None])]
              ELSE book]
       /\ sinceCreated' = IF lead_ok THEN [sinceCreated EXCEPT ![c] = "within_ttl"]
                          ELSE sinceCreated

\* create_lead_from_conversation(chat_id, phone, ...) by caller k, up to the
\* await of update_lead_status or through the POST; q is the stage of the
\* qualification.
CreateLeadFromConversation(k, c, phone, q) ==
    /\ leadCall[k].pc = "idle"
    /\ IF service_token = ""
       THEN UNCHANGED <<crm, leadCall, sinceCreated>>
       ELSE \E contact_id \in find_contact_by_phone(crm[c], phone),
               leads \in find_leads_by_contact(crm[c]) :
            IF contact_id /\ leads # <<>>
            THEN LET i == leads[1]
                     current_status_id == crm[c].leads[i].status_id
                 IN /\ leadCall' =
                         IF should_update_stage(current_status_id, STAGE_TO_STATUS[q])
                         THEN [leadCall EXCEPT ![k] =
                                 [pc |-> "update", chat |-> c, lead |-> i,
                                  status_id |-> STAGE_TO_STATUS[q]]]
                         ELSE leadCall
                    /\ UNCHANGED <<crm, sinceCreated>>
            ELSE /\ TotalLeads < MaxLeads
                 /\ \E contact_ok \in BOOLEAN, lead_ok \in BOOLEAN, st \in CreatedStatuses :
                       PostLead(c, phone, contact_ok, lead_ok, st)
                 /\ UNCHANGED leadCall
    /\ UNCHANGED <<service_token, lead_cache>>
    /\ UNCHANGED <<poolVars, routeVars, sendVars, convVars, pureVars, opsVars>>

\* The rest of the call: update_lead_status(lead_id, status_id) answers, the
\* note is added on success, the result is returned.
UpdateLeadStatus(k, success) ==
    /\ leadCall[k].pc = "update"
    /\ crm' = IF success
              THEN [crm EXCEPT ![leadCall[k].chat].leads[leadCall[k].lead].status_id =
                                   leadCall[k].status_id]
              ELSE crm
    /\ leadCall' = [leadCall EXCEPT ![k] = IdleCall]
    /\ UNCHANGED <<service_token, lead_cache, sinceCreated>>
    /\ UNCHANGED <<poolVars, routeVars, sendVars, convVars, pureVars, opsVars>>

\* avito_lead_cache_ttl passes after a chat's last lead creation.
LeadCacheTtlElapses(c) ==
    /\ sinceCreated[c] = "within_ttl"
    /\ sinceCreated' = [sinceCreated EXCEPT ![c] = "elapsed"]
    /\ lead_cache' = [lead_cache EXCEPT ![c] = NoEntry]
    /\ UNCHANGED <<service_token, crm, leadCall>>
    /\ UNCHANGED <<poolVars, routeVars, sendVars, convVars, pureVars, opsVars>>

LeadNext ==
    \/ \E k \in LeadCallers, c \in Chats, phone \in Phones, q \in Stages :
          CreateLeadFromConversation(k, c, phone, q)
    \/ \E k \in LeadCallers, success \in BOOLEAN : UpdateLeadStatus(k, success)
    \/ \E c \in Chats : LeadCacheTtlElapses(c)

LeadSpec == Init /\ [][LeadNext]_vars

(* ----------------------------- LeadQualifier ---------------------------- *)

\* A user message, as far as the fallback reads it: whether it holds a
\* phrase of very_hot_triggers and one of warm_triggers, and in which case
\* the phrase is written.
Cases == {"absent", "lower", "upper"}

Messages == [purchase : Cases, price : Cases]

EmptyMessage == [purchase |-> "absent", price |-> "absent"]

\* str.lower()
lower(case) == IF case = "upper" THEN "lower" ELSE case

Qualification(stage, temperature, confidence) ==
    [stage |-> stage, temperature |-> temperature, confidence |-> confidence,
     status_id |-> STAGE_TO_STATUS[stage]]

\* _fallback_qualification
fallback_qualification(user_message) ==
    IF lower(user_message.purchase) = "lower" THEN Qualification("decision", "hot", 60)
    ELSE IF lower(user_message.price) = "lower" THEN Qualification("negotiation", "warm", 50)
    ELSE Qualification("first_contact", "warm", 50)

\* What the chat-completion call gives: an exception, a text that
\* json.loads or the field conversions reject, or a JSON object with a
\* stage and a temperature.
Unparseable == [stage |-> "unparseable", temperature |-> "unparseable"]

LlmStages == Stages \cup {"bogus"}

Temperatures == {"cold", "warm", "hot"}

LlmResponses == {Unparseable} \cup [stage : LlmStages, temperature : Temperatures]

LlmOutcomes == {[kind |-> "exception", text |-> Unparseable]}
                   \cup {[kind |-> "response", text |-> r] : r \in LlmResponses}

\* _parse_llm_response
parse_llm_response(response_text) ==
    IF response_text = Unparseable THEN fallback_qualification(EmptyMessage)
    ELSE Qualification(IF response_text.stage \in Stages THEN response_text.stage
                       ELSE "first_contact",
                       response_text.temperature, 90)

\* qualify_lead: client says whether the OpenAI client was built.
qualify_lead(client, user_message, outcome) ==
    IF ~client THEN fallback_qualification(user_message)
    ELSE IF outcome.kind = "exception" THEN fallback_qualification(user_message)
    ELSE parse_llm_response(outcome.text)

StatusIds == {STAGE_TO_STATUS[st] : st \in Stages} \cup {OtherStatus}

\* The contexts _update_state and _generate_response may be handed.
Contexts ==
    {[NewContext EXCEPT !.state = st, !.user_name = n, !.phone = ph, !.pain_point = pp] :
        st \in {States[i] : i \in 1..Len(States)}, n \in {None, "Ivan"},
        ph \in {None, "+79991234567"}, pp \in {None, "crm"}}

QualifyLead(client, user_message, outcome) ==
    /\ lastCall' = [fn |-> "qualify_lead", client |-> client, user_message |-> user_message,
                    outcome |-> outcome,
                    result |-> qualify_lead(client, user_message, outcome)]
    /\ UNCHANGED <<poolVars, routeVars, sendVars, convVars, leadVars, opsVars>>

ShouldUpdateStage(current_status_id, new_status_id) ==
    /\ lastCall' = [fn |-> "should_update_stage", current_status_id |-> current_status_id,
                    new_status_id |-> new_status_id,
                    result |-> should_update_stage(current_status_id, new_status_id)]
    /\ UNCHANGED <<poolVars, routeVars, sendVars, convVars, leadVars, opsVars>>

\* handle_message from _update_state on, for a context as the extraction
\* pass left it: the state after the turn and the kind of reply.
UpdateStateAndRespond(ctx, llm) ==
    /\ LET st1 == update_state(ctx)
           entered == ctx.state # "phone_collected" /\ st1 = "phone_collected"
           st2 == IF entered THEN "qualified" ELSE st1
       IN lastCall' = [fn |-> "update_state", context |-> ctx, state |-> st2,
                       reply |-> IF entered THEN "confirmation"
                                 ELSE generate_response(st2, llm)]
    /\ UNCHANGED <<poolVars, routeVars, sendVars, convVars, leadVars, opsVars>>

\* _try_extract_data(context, message): one extraction pass on a context,
\* with the results the three extractors give.
TryExtractData(ctx, rn, rp, rd) ==
    /\ LET ex == try_extract_data(ctx, rn, rp, rd)
       IN lastCall' = [fn |-> "try_extract_data", context |-> ctx,
                       results |-> [name |-> rn, phone |-> rp, need |-> rd],
                       out |-> ex.ctx, raised |-> ex.raised]
    /\ UNCHANGED <<poolVars, routeVars, sendVars, convVars, leadVars, opsVars>>

PureNext ==
    \/ \E client \in BOOLEAN, user_message \in Messages, outcome \in LlmOutcomes :
          QualifyLead(client, user_message, outcome)
    \/ \E current_status_id \in StatusIds, new_status_id \in StatusIds :
          ShouldUpdateStage(current_status_id, new_status_id)
    \/ \E ctx \in Contexts, llm \in BOOLEAN : UpdateStateAndRespond(ctx, llm)

PureSpec == Init /\ [][PureNext]_vars

\* The contexts an extraction pass is applied to: every combination of the
\* three fields it reads (the pass never reads the state).
ExtractContexts == {ctx \in Contexts : ctx.state = "greeting"}

ExtractNext ==
    \E ctx \in ExtractContexts, rn \in NameResults, rp \in PhoneResults,
       rd \in NeedResults : TryExtractData(ctx, rn, rp, rd)

ExtractSpec == Init /\ [][ExtractNext]_vars

(* ------------------- AvitoAuthManager, AvitoAPIClient ------------------ *)

Requesters == 1..NumRequesters

\* AvitoAPIClient._max_attempts.
max_attempts == 3

\* Lifetimes against avito_token_refresh_before: "long" is a TTL of at least
\* the margin (or no expiry, -1), "short" a TTL below it.
Lifetimes == {"long", "short"}

\* Answers of the token URL: a token with a lifetime, or a failure (timeout,
\* network error, status >= 400, bad JSON, no access_token).
TokenAnswers == Lifetimes \cup {"error"}

\* Answers to an API request: success, 401, 429, a timeout, any other
\* failure (network error, another status >= 400, bad JSON).
Statuses == {"ok", "401", "429", "timeout", "error"}

\* _get_cached_token: the cached token, or 0 (None) when the key is unset
\* or its TTL is below refresh_before.
get_cached_token(entry) == IF entry.ttl = "long" THEN entry.token ELSE 0

\* _cache_token: redis.set(cache_key, token, ex=max(1, min(expires_in, token_ttl))).
cache_token(token, expires_in) == [token |-> token, ttl |-> expires_in]

\* get_access_token without the lock around it.
lock_free_always(holder) == TRUE

\* async with self._lock: the lock can be taken when no call holds it.
lock_free(holder) == holder = 0

\* _request is called.
BeginRequest(r) ==
    /\ call[r].pc \in {"idle", "done"}
    /\ call' = [call EXCEPT ![r] = [IdleRequest EXCEPT !.pc = "token"]]
    /\ UNCHANGED <<avito_token, auth_lock, token_requests, cache_disturbed>>
    /\ UNCHANGED <<appVars, syncVars, rateVars>>

\* get_access_token: under the lock, the cached token is returned, or the
\* POST to the token URL is sent.
GetAccessToken(r) ==
    /\ call[r].pc = "token"
    /\ lock_free(auth_lock)
    /\ LET cached == get_cached_token(avito_token) IN
       IF cached # 0
       THEN /\ call' = [call EXCEPT ![r].pc = "send", ![r].token = cached]
            /\ UNCHANGED <<auth_lock, token_requests>>
       ELSE /\ token_requests < MaxTokenRequests
            /\ token_requests' = token_requests + 1
            /\ auth_lock' = r
            /\ call' = [call EXCEPT ![r].pc = "requesting",
                                    ![r].token = token_requests + 1]
    /\ UNCHANGED <<avito_token, cache_disturbed>>
    /\ UNCHANGED <<appVars, syncVars, rateVars>>

\* _request_new_token: the token URL answers; a token is cached and
\* returned, a failure raises out of get_access_token and _request. The lock
\* is released either way.
TokenResponse(r, answer) ==
    /\ call[r].pc = "requesting"
    /\ auth_lock' = 0
    /\ IF answer = "error"
       THEN /\ call' = [call EXCEPT ![r].pc = "done", ![r].token = 0,
                                    ![r].outcome = "AvitoAuthError"]
            /\ cache_disturbed' = TRUE
            /\ UNCHANGED avito_token
       ELSE /\ avito_token' = cache_token(call[r].token, answer)
            /\ call' = [call EXCEPT ![r].pc = "send"]
            /\ cache_disturbed' = (cache_disturbed \/ answer = "short")
    /\ UNCHANGED token_requests
    /\ UNCHANGED <<appVars, syncVars, rateVars>>

\* The position of the for loop after a failed attempt that may be
\* repeated: the next attempt, or the end after the last one. The token
\* local is dead once the attempt is over.
next_attempt(c, error) ==
    IF c.attempt = max_attempts - 1
    THEN [c EXCEPT !.pc = "done", !.token = 0, !.outcome = error]
    ELSE [c EXCEPT !.pc = "token", !.token = 0, !.attempt = @ + 1]

\* _request: the API answers the request sent with the token.
Respond(r, status) ==
    /\ call[r].pc = "send"
    /\ IF status = "401"
       THEN /\ avito_token' = NoToken
            /\ cache_disturbed' = TRUE
            /\ call' = [call EXCEPT ![r] =
                  next_attempt([@ EXCEPT !.invalidations = @ + 1,
                                         !.unauthorized = @ + 1],
                               "AvitoAuthError")]
       ELSE /\ call' = [call EXCEPT ![r] =
                  CASE status = "ok" -> [@ EXCEPT !.pc = "done", !.token = 0, !.outcome = "ok"]
                    [] status = "429" -> next_attempt(@, "AvitoRateLimitError")
                    [] status = "timeout" -> next_attempt(@, "AvitoAPITimeoutError")
                    [] status = "error" ->
                         [@ EXCEPT !.pc = "done", !.token = 0,
                                   !.outcome = "AvitoAPIError"]]
            /\ UNCHANGED <<avito_token, cache_disturbed>>
    /\ UNCHANGED <<auth_lock, token_requests>>
    /\ UNCHANGED <<appVars, syncVars, rateVars>>

\* Time passes for the Redis key: its TTL falls below refresh_before, then
\* the key expires.
TokenAges ==
    /\ avito_token # NoToken
    /\ avito_token' = IF avito_token.ttl = "long"
                      THEN [avito_token EXCEPT !.ttl = "short"]
                      ELSE NoToken
    /\ cache_disturbed' = TRUE
    /\ UNCHANGED <<auth_lock, call, token_requests>>
    /\ UNCHANGED <<appVars, syncVars, rateVars>>

AuthNext ==
    \/ \E r \in Requesters : BeginRequest(r)
    \/ \E r \in Requesters : GetAccessToken(r)
    \/ \E r \in Requesters, answer \in TokenAnswers : TokenResponse(r, answer)
    \/ \E r \in Requesters, status \in Statuses : Respond(r, status)
    \/ TokenAges

AuthSpec == Init /\ [][AuthNext]_vars

(* --------------------------- AvitoSyncManager -------------------------- *)

\* Callers of start_sync and stop_sync (the lifespan of the application,
\* and any other holder of the manager).
SyncCallers == 1..2

\* Positions of _sync_loop in which the task can still run sync_all_items.
LivePcs == {"loop", "pass", "sleep"}

\* Positions of a task that is done.
DonePcs == {"finished", "cancelled"}

\* _sync_loop, except Exception (lines 78-80): the try encloses the while
\* loop, so the handler logs, sleeps 60 seconds and the coroutine returns.
after_failed_pass == "error_sleep"

\* start_sync: under the lock, nothing when already running, else
\* is_running = True and the task is created.
StartSync(k) ==
    /\ syncCall[k] = "idle"
    /\ sync_lock = 0
    /\ IF is_running
       THEN UNCHANGED <<is_running, sync_task>>
       ELSE /\ is_running' = TRUE
            /\ sync_task' = [pc |-> "loop", cancel |-> FALSE]
    /\ UNCHANGED <<sync_lock, syncCall, sync_passes>>
    /\ UNCHANGED <<appVars, authVars, rateVars>>

\* stop_sync up to "await self.sync_task": under the lock, nothing when not
\* running, else is_running = False and the task is cancelled. cancel() on
\* a task that is done has no effect, and awaiting it returns at once.
StopSync(k) ==
    /\ syncCall[k] = "idle"
    /\ sync_lock = 0
    /\ IF ~is_running
       THEN UNCHANGED <<is_running, sync_task, sync_lock, syncCall>>
       ELSE /\ is_running' = FALSE
            /\ IF sync_task = NoTask
               THEN UNCHANGED <<sync_task, sync_lock, syncCall>>
               ELSE /\ sync_task' = [sync_task EXCEPT
                                        !.cancel = sync_task.pc \notin DonePcs]
                    /\ sync_lock' = k
                    /\ syncCall' = [syncCall EXCEPT ![k] = "awaiting"]
    /\ UNCHANGED sync_passes
    /\ UNCHANGED <<appVars, authVars, rateVars>>

\* stop_sync, the rest: the awaited task is done, sync_task = None, the lock
\* is released.
StopSyncDone(k) ==
    /\ syncCall[k] = "awaiting"
    /\ sync_task.pc \in DonePcs
    /\ sync_task' = NoTask
    /\ sync_lock' = 0
    /\ syncCall' = [syncCall EXCEPT ![k] = "idle"]
    /\ UNCHANGED <<is_running, sync_passes>>
    /\ UNCHANGED <<appVars, authVars, rateVars>>

\* _sync_loop: "while self.is_running", then sync_all_items is called.
SyncLoop ==
    /\ sync_task.pc = "loop"
    /\ ~sync_task.cancel
    /\ IF is_running
       THEN /\ sync_passes < MaxPasses
            /\ sync_passes' = sync_passes + 1
            /\ sync_task' = [sync_task EXCEPT !.pc = "pass"]
       ELSE /\ sync_task' = [sync_task EXCEPT !.pc = "finished"]
            /\ UNCHANGED sync_passes
    /\ UNCHANGED <<is_running, sync_lock, syncCall>>
    /\ UNCHANGED <<appVars, authVars, rateVars>>

\* sync_all_items ends: it returns, or it raises (get_items raised
\* AvitoAPIError, or the final redis set failed).
SyncAllItems(ok) ==
    /\ sync_task.pc = "pass"
    /\ ~sync_task.cancel
    /\ sync_task' = [sync_task EXCEPT !.pc = IF ok THEN "sleep" ELSE after_failed_pass]
    /\ UNCHANGED <<is_running, sync_lock, syncCall, sync_passes>>
    /\ UNCHANGED <<appVars, authVars, rateVars>>

\* A sleep of _sync_loop ends: the interval sleep leads to the next
\* iteration, the sleep of the exception handler to the end of the task.
SleepEnds ==
    /\ sync_task.pc \in {"sleep", "error_sleep"}
    /\ ~sync_task.cancel
    /\ sync_task' = [sync_task EXCEPT
                        !.pc = IF sync_task.pc = "sleep" THEN "loop" ELSE "finished"]
    /\ UNCHANGED <<is_running, sync_lock, syncCall, sync_passes>>
    /\ UNCHANGED <<appVars, authVars, rateVars>>

\* CancelledError reaches the task at its await: inside the try it is
\* caught and the coroutine returns, inside the exception handler it ends
\* the task as cancelled.
SyncCancelled ==
    /\ sync_task.cancel
    /\ sync_task' = [pc |-> IF sync_task.pc = "error_sleep" THEN "cancelled"
                            ELSE "finished",
                     cancel |-> FALSE]
    /\ UNCHANGED <<is_running, sync_lock, syncCall, sync_passes>>
    /\ UNCHANGED <<appVars, authVars, rateVars>>

SyncNext ==
    \/ \E k \in SyncCallers : StartSync(k)
    \/ \E k \in SyncCallers : StopSync(k)
    \/ \E k \in SyncCallers : StopSyncDone(k)
    \/ SyncLoop
    \/ \E ok \in BOOLEAN : SyncAllItems(ok)
    \/ SleepEnds
    \/ SyncCancelled

SyncSpec == Init /\ [][SyncNext]_vars

(* ------------------------- RateLimitMiddleware ------------------------- *)

Clients == {"ip1", "ip2"}

\* Requests being dispatched at once.
Dispatchers == 1..2

\* UNPROTECTED_PATHS holds /health; /api/v1/chat is not in it.
exempt_paths == {"/health"}

Paths == {"/health", "/api/v1/chat"}

\* The answer after the counter was read: 429 above the limit, else the
\* answer of the application.
rate_response(current) == IF current > RateLimit THEN 429 ELSE 200

\* dispatch is called: an exempt path goes straight to call_next, any other
\* request goes on to the counter.
Dispatch(q, client, path) ==
    /\ rateReq[q].pc = "idle"
    /\ IF path \in exempt_paths
       THEN /\ rateLast' = [client |-> client, path |-> path, status |-> 200]
            /\ UNCHANGED rateReq
       ELSE /\ rateReq' = [rateReq EXCEPT ![q] =
                              [pc |-> "incr", client |-> client, path |-> path]]
            /\ UNCHANGED rateLast
    /\ UNCHANGED rate_key
    /\ UNCHANGED <<appVars, authVars, syncVars>>

\* redis_client.incr(redis_key) returns or raises. A count of 1 leads to
\* the expire call, any other count to the answer; an exception lets the
\* request through.
Incr(q, ok) ==
    /\ rateReq[q].pc = "incr"
    /\ LET ip == rateReq[q].client
           current == rate_key[ip].count + 1
       IN IF ok
          THEN /\ current <= RateLimit + 1
               /\ rate_key' = [rate_key EXCEPT ![ip].count = current]
               /\ IF current = 1
                  THEN /\ rateReq' = [rateReq EXCEPT ![q].pc = "expire"]
                       /\ UNCHANGED rateLast
                  ELSE /\ rateReq' = [rateReq EXCEPT ![q] = IdleDispatch]
                       /\ rateLast' = [client |-> ip, path |-> rateReq[q].path,
                                       status |-> rate_response(current)]
          ELSE /\ rateReq' = [rateReq EXCEPT ![q] = IdleDispatch]
               /\ rateLast' = [client |-> ip, path |-> rateReq[q].path, status |-> 200]
               /\ UNCHANGED rate_key
    /\ UNCHANGED <<appVars, authVars, syncVars>>

\* redis_client.expire(redis_key, window_seconds) returns or raises; the
\* request is let through either way.
Expire(q, ok) ==
    /\ rateReq[q].pc = "expire"
    /\ LET ip == rateReq[q].client IN
       /\ rate_key' = IF ok /\ rate_key[ip] # NoKey
                       THEN [rate_key EXCEPT ![ip].expiry = TRUE]
                       ELSE rate_key
       /\ rateLast' = [client |-> ip, path |-> rateReq[q].path,
                       status |-> IF ok THEN rate_response(1) ELSE 200]
    /\ rateReq' = [rateReq EXCEPT ![q] = IdleDispatch]
    /\ UNCHANGED <<appVars, authVars, syncVars>>

\* The window of a key that has an expiry elapses: Redis deletes the key.
WindowElapses(ip) ==
    /\ rate_key[ip].expiry
    /\ rate_key' = [rate_key EXCEPT ![ip] = NoKey]
    /\ UNCHANGED <<rateReq, rateLast>>
    /\ UNCHANGED <<appVars, authVars, syncVars>>

RateNext ==
    \/ \E q \in Dispatchers, client \in Clients, path \in Paths :
          Dispatch(q, client, path)
    \/ \E q \in Dispatchers, ok \in BOOLEAN : Incr(q, ok)
    \/ \E q \in Dispatchers, ok \in BOOLEAN : Expire(q, ok)
    \/ \E ip \in Clients : WindowElapses(ip)

RateSpec == Init /\ [][RateNext]_vars

(* ------------------------------- claims -------------------------------- *)

Rank(st) == CHOOSE i \in 1..Len(States) : States[i] = st

TransitionTable ==
    {<<"start", "greeting">>, <<"greeting", "name_collected">>,
     <<"greeting", "need_identified">>, <<"name_collected", "need_identified">>,
     <<"need_identified", "phone_collected">>, <<"phone_collected", "qualified">>}

\* The leads of a chat that were created from a phone-bearing message.
PhoneLeads(book) == {i \in 1..Len(book.leads) : book.leads[i].phone}

\* C1: once a phone-bearing message has created a lead for a chat, and for
\* as long as the dedup entry of the chat is live (avito_lead_cache_ttl has
\* not passed since the last creation), no further run of the pipeline on
\* a phone-bearing message creates a CRM lead for the chat.
C1_NoSecondLeadWhileCached ==
    [][\A c \in Chats :
          (sinceCreated[c] = "within_ttl" /\ PhoneLeads(crm[c]) # {})
              => PhoneLeads(crm'[c]) = PhoneLeads(crm[c])]_vars

\* C2: in every turn the state at the end is reached from the state at the
\* start through transitions of the table only (or is the same state).
C2_TableOnly ==
    \A i \in 1..(Len(lastTurn.path) - 1) :
        <<lastTurn.path[i], lastTurn.path[i + 1]>> \in TransitionTable

C2_Witness ==
    /\ lastTurn.result = "saved"
    /\ lastTurn.path = <<"greeting", "need_identified">>

Populated(ctx) ==
    {f \in {"user_name", "phone", "pain_point", "product_interest"} : ctx[f] # None}

NeverRegresses ==
    [][\A c \in Chats :
          (store[c] # NoContext /\ store'[c] # NoContext)
              => Rank(store'[c].state) >= Rank(store[c].state)]_vars

Qualifies(ev) ==
    /\ ev.event_type = "message.new"
    /\ ev.chat_at = "payload"
    /\ ev.type = "text"
    /\ ev.has_text

\* C4 (as claimed): with auto-reply enabled, a worker that holds a
\* message.new event of the documented body shape with chat_id and text
\* leaves the handling of it only into the reply sender (or is cancelled
\* at shutdown): a reply is always attempted.
C4_ReplyAlwaysAttempted ==
    [][\A w \in WorkerIds :
        (task[w].pc = "handle" /\ Qualifies(task[w].payload) /\ avito_auto_reply_enabled)
            => task'[w].pc \in {"handle", "send"} \/ task[w].cancel]_vars

\* C5 (as claimed): every request that passed validation is answered 200 and
\* its background step ends with the payload put on the worker pool's queue.
C5_AcceptedIsQueued ==
    \A i \in 1..Len(requests) :
        validate_signature(requests[i].ev, requests[i].sig)
            => /\ requests[i].status = 200
               /\ requests[i].bg \in {"pending", "queued"}

\* C6 (as claimed): a request with a mismatching signature is answered 403
\* and no processing is started for it.
C6_BadSignatureRejected ==
    \A i \in 1..Len(requests) :
        requests[i].sig = "invalid"
            => requests[i].status = 403 /\ requests[i].bg = "none"

\* C7: the queue never exceeds its capacity, add_to_queue is always callable
\* (never blocks), and a call on a full queue logs the drop and leaves the
\* queued events, their order and every worker task as they were.
C7_QueueFullDrops ==
    /\ [](Len(message_queue) <= MaxQueueSize)
    /\ [](\A ev \in Events : ENABLED AddToQueue(ev))
    /\ [][(addTick' # addTick /\ Len(message_queue) = MaxQueueSize)
            => /\ message_queue' = message_queue
               /\ lastAdd' = "dropped"
               /\ task' = task
               /\ workers' = workers]_vars

C7_Witness ==
    /\ lastAdd = "dropped"
    /\ Len(message_queue) = MaxQueueSize
    /\ workers = WorkerIds
    /\ \A w \in WorkerIds : task[w].pc \in {"get", "handle", "send"}

LiveWorkers == {w \in workers : task[w].pc \in {"get", "handle", "send"}}

\* C8: between start_processing and stop_processing every one of the N
\* worker tasks is alive, whatever exceptions event handling has raised.
C8_WorkersSurvive ==
    (workers # {} /\ ~stop_event) => Cardinality(LiveWorkers) = NumWorkers

C8_Witness ==
    /\ errorLogged
    /\ ~stop_event
    /\ \E w \in workers : task[w].pc = "handle"
    /\ Cardinality(LiveWorkers) = NumWorkers

\* C9 (as claimed): once stop_processing has been called the queue takes no
\* new item and no event is dequeued.
C9_StoppedQueueFrozen ==
    [][stop_event => message_queue' = message_queue]_vars

\* C10: one _send_with_retry call makes at most 3 send_message calls, none
\* after a successful one, and always returns.
C10_SendBounded ==
    /\ [](/\ Len(sendLog) <= 3
          /\ \A i \in 1..(Len(sendLog) - 1) : sendLog[i] # "ok"
          /\ sendPc \in {"idle", "loop", "returned"})
    /\ (sendPc = "loop" ~> sendPc = "returned")

C10_Witness ==
    /\ sendPc = "returned"
    /\ Len(sendLog) = 3
    /\ \A i \in 1..3 : sendLog[i] # "ok"

\* Rank of a status in first_contact < negotiation < decision < contract;
\* 0 for a status outside the table.
StageRank(status_id) ==
    CASE status_id = 80984178 -> 1
      [] status_id = 80984182 -> 2
      [] status_id = 80984186 -> 3
      [] status_id = 80984190 -> 4
      [] OTHER -> 0

\* C11: the status of a CRM lead is only ever replaced by a status of higher
\* rank, whatever the order and interleaving of the calls.
C11_StageOnlyForward ==
    [][\A c \in Chats : \A i \in 1..Len(crm[c].leads) :
          crm'[c].leads[i].status_id # crm[c].leads[i].status_id
              => StageRank(crm'[c].leads[i].status_id) > StageRank(crm[c].leads[i].status_id)]_vars

\* C12: should_update_stage is true exactly when both statuses are stage
\* statuses and the new one has the higher rank; equal or lower ranks and
\* pairs with an unknown status give false.
C12_ShouldUpdateIffHigher ==
    lastCall.fn = "should_update_stage" =>
        (lastCall.result <=>
            /\ StageRank(lastCall.current_status_id) > 0
            /\ StageRank(lastCall.new_status_id) > 0
            /\ StageRank(lastCall.new_status_id) > StageRank(lastCall.current_status_id))

C12_Witness ==
    /\ lastCall.fn = "should_update_stage"
    /\ lastCall.current_status_id = 80984182
    /\ lastCall.new_status_id = 80984186
    /\ lastCall.result

Heuristic(user_message) ==
    IF user_message.purchase # "absent" THEN <<"decision", "hot">>
    ELSE IF user_message.price # "absent" THEN <<"negotiation", "warm">>
    ELSE <<"first_contact", "warm">>

\* C20: when the LLM qualification fails (no client, an exception, an
\* unparseable response) qualify_lead returns the keyword heuristic of the
\* user message, and every result carries the status_id of its stage.
C20_FallbackIsHeuristic ==
    lastCall.fn = "qualify_lead" =>
        /\ lastCall.result.status_id = STAGE_TO_STATUS[lastCall.result.stage]
        /\ (~lastCall.client \/ lastCall.outcome.kind = "exception"
                \/ lastCall.outcome.text = Unparseable)
             => <<lastCall.result.stage, lastCall.result.temperature>>
                    = Heuristic(lastCall.user_message)

\* The turn that ended last took a phone number while its context was in
\* NEED_IDENTIFIED: the turn that is to enter PHONE_COLLECTED.
PhoneTurn ==
    /\ lastTurn.result # "none"
    /\ lastTurn.path[1] = "need_identified"
    /\ lastTurn.phone_found

\* C13: a turn schedules lead creation exactly when it is the turn in which
\* the phone arrives in NEED_IDENTIFIED, so that a conversation schedules
\* it once, on that turn, and on no earlier or later turn.
C13_LeadScheduledOnPhoneTurn ==
    lastTurn.result # "none" => (lastTurn.lead_scheduled <=> PhoneTurn)

\* C14: a turn that takes the phone in NEED_IDENTIFIED ends in QUALIFIED,
\* and no turn ends, and no context is stored, in PHONE_COLLECTED.
C14_PhoneTurnEndsQualified ==
    /\ \A c \in Chats : store[c] # NoContext => store[c].state # "phone_collected"
    /\ lastTurn.result # "none" => lastTurn.path[Len(lastTurn.path)] # "phone_collected"
    /\ PhoneTurn => lastTurn.path[Len(lastTurn.path)] = "qualified"

ContextFields == {"user_name", "phone", "email", "pain_point", "product_interest"}

\* C16: once a field of a stored context holds a value, no later turn
\* changes or clears it for as long as the context lives.
C16_WriteOnce ==
    [][\A c \in Chats :
          (store[c] # NoContext /\ store'[c] # NoContext)
              => \A f \in ContextFields :
                    store[c][f] # None => store'[c][f] = store[c][f]]_vars

C16_Witness ==
    \E c \in Chats :
        /\ store[c] # NoContext
        /\ store[c].pain_point # None
        /\ store[c].product_interest # None
        /\ store[c].state = "need_identified"
        /\ Len(store[c].messages) >= 6

\* The context field an extractor fills.
FieldOf(ctx, type) ==
    CASE type = "name" -> ctx.user_name
      [] type = "phone" -> ctx.phone
      [] type = "need" -> ctx.pain_point

\* C17: a turn gives no task to the extractor of a field that the loaded
\* context already holds.
C17_NoRerun ==
    [][\A t \in Turners :
          (turn[t].pc = "loaded" /\ turn'[t].pc = "idle")
              => \A ty \in TaskTypes :
                    FieldOf(turn[t].ctx, ty) # None => ty \notin lastTurn'.called]_vars

C17_Witness ==
    /\ lastTurn.result = "saved"
    /\ lastTurn.called = {"name", "phone"}
    /\ lastTurn.path = <<"need_identified">>

\* C18: a turn in which an applicable extractor failed still completes:
\* the context is saved and a reply is returned.
C18_FailedExtractorTolerated ==
    (lastTurn.result # "none" /\ lastTurn.failed # {})
        => (lastTurn.result = "saved" /\ lastTurn.reply # "none")

\* C19: the turn that takes the phone in NEED_IDENTIFIED returns the canned
\* confirmation and saves the context, whatever the background lead
\* creation does.
C19_ConfirmationReturned ==
    PhoneTurn => (lastTurn.result = "saved" /\ lastTurn.reply = "confirmation")

\* The first k entries of a sequence.
Prefix(seq, k) == [i \in 1..k |-> seq[i]]

IsPrefix(a, b) == Len(a) <= Len(b) /\ Prefix(b, Len(a)) = a

C23_WrittenOnlyAboveThreshold ==
    lastCall.fn = "try_extract_data" =>
        LET before == lastCall.context
            after == lastCall.out
            r == lastCall.results
        IN /\ after.user_name # before.user_name =>
                 /\ before.user_name = None
                 /\ r.name.kind = "result"
                 /\ r.name.value # None
                 /\ r.name.confidence >= 70
                 /\ after.user_name = r.name.value
           /\ after.phone # before.phone =>
                 /\ before.phone = None
                 /\ r.phone.kind = "result"
                 /\ r.phone.value # None
                 /\ r.phone.confidence >= 80
                 /\ after.phone = r.phone.value
           /\ (after.pain_point # before.pain_point
                 \/ after.product_interest # before.product_interest) =>
                 /\ before.pain_point = None
                 /\ r.need.kind = "result"
                 /\ r.need.value.pain_point # None
                 /\ r.need.confidence >= 60
                 /\ after.pain_point = r.need.value.pain_point
                 /\ after.product_interest = r.need.value.product_interest

\* A pass that completes and writes pain_point from a need result at exactly
\* 0.6.
C23_Witness ==
    /\ lastCall.fn = "try_extract_data"
    /\ ~lastCall.raised
    /\ lastCall.results.need.kind = "result"
    /\ lastCall.results.need.confidence = 60
    /\ lastCall.context.pain_point = None
    /\ lastCall.out.pain_point = "crm"
\* A context whose state is backed by the fields of the transitions that
\* lead to it.
Held(ctx) ==
    /\ ctx.state = "name_collected" => ctx.user_name # None
    /\ ctx.state \in {"need_identified", "phone_collected", "qualified"}
          => ctx.pain_point # None
    /\ ctx.state \in {"phone_collected", "qualified"} => ctx.phone # None

C22_CreateWritesCache ==
    [][\A c \in Chats :
          Len(crm'[c].leads) > Len(crm[c].leads) => lead_cache'[c] # NoEntry]_vars
\* C24: a worker that handles an event whose event_type is not message.new
\* (message.read, an unknown type, no type) sends no reply, raises nothing
\* (the new-message handler and its extractor and CRM calls are not
\* entered) and leaves every stored conversation context and the CRM
\* unchanged; the worker goes on to its next iteration.
C24_OnlyNewMessageHandled ==
    [][\A w \in WorkerIds :
          (task[w].pc = "handle" /\ ~task[w].cancel
             /\ task[w].payload.event_type # "message.new"
             /\ task'[w].pc # "handle")
          => /\ task'[w].pc \in {"get", "exit"}
             /\ task'[w].payload = NoEvent
             /\ errorLogged' = errorLogged
             /\ store' = store
             /\ crm' = crm]_vars

\* A worker that has taken an event with no event_type whose message object
\* holds a chat_id and a text, and one that has taken an unknown type.
C24_Witness ==
    \E w \in WorkerIds :
        /\ task[w].pc = "handle"
        /\ task[w].payload = UntypedTextEvent
        /\ EditedImageEvent \in {message_queue[i] : i \in 1..Len(message_queue)}
\* C25: on a 401 the client invalidates the cached token once and retries
\* once; a second 401 in the same call ends it with a failure, with no
\* further invalidation or retry. It fails for AvitoAPIClient: every 401
\* invalidates, and the call goes on to a third attempt.
C25_InvalidateOnceRetryOnce ==
    \A r \in Requesters :
        /\ call[r].invalidations <= 1
        /\ call[r].unauthorized >= 2 =>
              (call[r].pc = "done" /\ call[r].outcome = "AvitoAuthError")

\* The token requests to the provider that are in flight.
InFlight == {r \in Requesters : call[r].pc = "requesting"}

C29_RunningHasLiveTask ==
    is_running => (sync_task # NoTask /\ sync_task.pc \notin DonePcs)
\* C30: whenever a client's counter key exists and no dispatch call is
\* between the incr that created it and its expire, the key has an expiry
\* (so a client answered 429 is admitted again once the window elapses),
\* whatever the interleaving and whichever store calls fail. It fails: when
\* expire raises after the incr that created the key, the key stays
\* without an expiry.
C30_CounterHasExpiry ==
    \A ip \in Clients :
        (rate_key[ip].count > 0
           /\ \A q \in Dispatchers :
                 ~(rateReq[q].pc = "expire" /\ rateReq[q].client = ip))
        => rate_key[ip].expiry
====
